---- MODULE Spec2Model ----
(***************************************************************************)
(* A model of jlox: the scanner (tree_walker/scanner.rs), the diagnostics  *)
(* sink (tree_walker/errors.rs), the recursive-descent parser              *)
(* (tree_walker/parser.rs), the evaluator and printer of expressions       *)
(* (tree_walker/syntax_tree.rs) and run_file (main.rs).                    *)
(*                                                                         *)
(* A source text is a sequence of one-character strings.  The source is    *)
(* ASCII, so a byte offset (String::len, slicing) and a character offset   *)
(* (chars().nth) are the same number.  Rust offsets are 0-based: the       *)
(* character at offset i is source[i + 1] here.                            *)
(*                                                                         *)
(* A panic (unwrap() on None, panic!) is recorded in the field fault of    *)
(* the scanner record, or in the kind "Panic" of a parser result, and      *)
(* ends the run in pc = "scan_panic" or pc = "parse_panic".                *)
(***************************************************************************)
EXTENDS Integers, Sequences, FiniteSets, TLC

VARIABLES
    source,     \* Scanner.source
    tokens,     \* Scanner.tokens
    start,      \* Scanner.start
    current,    \* Scanner.current
    line,       \* Scanner.line
    errors,     \* the lines written to the error stream by errors::report
    pc,         \* "scan", "scan_panic", "scanned", "given", "parsed", "parse_panic",
                \* "tree", "evaluated", "printed", "exited", "synchronized" or
                \* "synchronize_panic"
    returned,   \* the token sequence scan_tokens returned
    parser,     \* the Parser: [tokens, current], and underflow: whether
                \* self.current - 1 was computed with current = 0
    parsed,     \* what Parser::parse returned, or the caller built: an Option<Expr>
    evaluated,  \* what Expr::eval returned
    printed,    \* what ast_print returned
    status      \* the exit status of the process of run_file: <<>> while it runs

vars == <<source, tokens, start, current, line, errors, pc, returned, parser, parsed,
          evaluated, printed, status>>

----------------------------------------------------------------------------
(* Characters *)

NL == "\n"
CR == "\r"
TAB == "\t"
QUOTE == "\""
\* chars().nth(i) past the end of the source
None == "None"
\* the '\0' of peek_next
NUL == "NUL"

Digits == {"0", "1", "2", "3", "4", "5", "6", "7", "8", "9"}

\* char::is_ascii_alphabetic
AsciiAlphabetic ==
    { "a", "b", "c", "d", "e", "f", "g", "h", "i", "j", "k", "l", "m",
      "n", "o", "p", "q", "r", "s", "t", "u", "v", "w", "x", "y", "z",
      "A", "B", "C", "D", "E", "F", "G", "H", "I", "J", "K", "L", "M",
      "N", "O", "P", "Q", "R", "S", "T", "U", "V", "W", "X", "Y", "Z" }

DigitSeq == <<"0", "1", "2", "3", "4", "5", "6", "7", "8", "9">>

DigitValue(c) == (CHOOSE i \in 1..10 : DigitSeq[i] = c) - 1

----------------------------------------------------------------------------
(* tokens.rs *)

TokenType ==
    { "LeftParen", "RightParen", "LeftBrace", "RightBrace", "Comma", "Dot",
      "Minus", "Plus", "Semicolon", "Colon", "Slash", "Star", "Question",
      "Bang", "BangEqual", "Equal", "EqualEqual", "Greater", "GreaterEqual",
      "Less", "LessEqual",
      "Identifier", "String", "Number",
      "And", "Class", "Else", "False", "Fun", "For", "If", "Nil", "Or",
      "Print", "Return", "Super", "This", "True", "Var", "While",
      "Eof" }

\* Option<LiteralType>: None, or Some of Number(f64), String, Bool, Nil.
\* A Number is the decimal num / 10^scale with no trailing zero in its
\* fraction: two lexemes have the same record iff they parse to the same f64.
LitNone == [kind |-> "None", num |-> 0, scale |-> 0, text |-> <<>>, bool |-> FALSE]
LitNumber(n, sc) == [kind |-> "Number", num |-> n, scale |-> sc, text |-> <<>>, bool |-> FALSE]
LitString(t) == [kind |-> "String", num |-> 0, scale |-> 0, text |-> t, bool |-> FALSE]
LitBool(b) == [kind |-> "Bool", num |-> 0, scale |-> 0, text |-> <<>>, bool |-> b]
LitNil == [kind |-> "Nil", num |-> 0, scale |-> 0, text |-> <<>>, bool |-> FALSE]

Token(t, lex, lit, ln) == [type |-> t, lexeme |-> lex, literal |-> lit, line |-> ln]

----------------------------------------------------------------------------
(* errors.rs *)

Error(ln, msg, pl) == [line |-> ln, message |-> msg, place |-> pl]

\* eprintln!("[line {}] Error: {}: {}", e.line, e.place, e.message): the line written
report(e) == <<"[line ", e.line, "] Error: ", e.place, ": ", e.message>>

----------------------------------------------------------------------------
(* scanner.rs.  A scanner record s holds the fields of Scanner, the lines   *)
(* it has reported, and fault.                                             *)

keywords ==
    { << <<"a", "n", "d">>, "And" >>,
      << <<"c", "l", "a", "s", "s">>, "Class" >>,
      << <<"e", "l", "s", "e">>, "Else" >>,
      << <<"f", "a", "l", "s", "e">>, "False" >>,
      << <<"f", "o", "r">>, "For" >>,
      << <<"f", "u", "n">>, "Fun" >>,
      << <<"i", "f">>, "If" >>,
      << <<"n", "i", "l">>, "Nil" >>,
      << <<"o", "r">>, "Or" >>,
      << <<"p", "r", "i", "n", "t">>, "Print" >>,
      << <<"r", "e", "t", "u", "r", "n">>, "Return" >>,
      << <<"s", "u", "p", "e", "r">>, "Super" >>,
      << <<"t", "h", "i", "s">>, "This" >>,
      << <<"t", "r", "u", "e">>, "True" >>,
      << <<"v", "a", "r">>, "Var" >>,
      << <<"w", "h", "i", "l", "e">>, "While" >> }

\* keywords.get(&text).unwrap_or(&TokenType::Identifier)
keywords_get(text) ==
    IF \E kw \in keywords : kw[1] = text
    THEN (CHOOSE kw \in keywords : kw[1] = text)[2]
    ELSE "Identifier"

Scanner_new(src) ==
    [source |-> src, tokens |-> <<>>, start |-> 0, current |-> 0, line |-> 1,
     errors |-> <<>>, fault |-> FALSE]

Scanner_is_at_end(s) == s.current >= Len(s.source)

\* self.source.chars().nth(i)
nth(s, i) == IF i < Len(s.source) THEN s.source[i + 1] ELSE None

\* &self.source[a..b]
slice(s, a, b) == SubSeq(s.source, a + 1, b)

Scanner_panic(s) == [s EXCEPT !.fault = TRUE]

Scanner_report(s, e) == [s EXCEPT !.errors = Append(@, report(e))]

\* advance: unwrap() panics past the end; the character it returns is
\* nth(s, s.current) of the state it is applied to
Scanner_advance(s) ==
    IF s.fault THEN s
    ELSE IF nth(s, s.current) = None THEN Scanner_panic(s)
    ELSE [s EXCEPT !.current = @ + 1]

add_token(s, t, l) ==
    IF s.fault THEN s
    ELSE [s EXCEPT !.tokens = Append(@, Token(t, slice(s, s.start, s.current), l, s.line))]

\* next_matches: whether it returns true; it then consumes the character
next_matches_test(s, expected) ==
    IF Scanner_is_at_end(s) THEN FALSE
    ELSE IF nth(s, s.current) # expected THEN FALSE
    ELSE TRUE

\* next_matches without its self.current += 1
next_matches_keeps_cursor(s, expected) == s

next_matches(s, expected) ==
    IF next_matches_test(s, expected) THEN [s EXCEPT !.current = @ + 1] ELSE s

\* peek: None stands for the panic of unwrap()
Scanner_peek(s) == nth(s, s.current)

peek_next(s) == IF nth(s, s.current + 1) = None THEN NUL ELSE nth(s, s.current + 1)

is_digit(c) == c \in Digits

is_alpha(c) == c \in AsciiAlphabetic \/ c = "_"

is_alpha_numeric(c) == is_digit(c) \/ is_alpha(c)

\* string: the loop of lines 182-187
RECURSIVE string_loop(_)
string_loop(s) ==
    IF ~Scanner_is_at_end(s) /\ Scanner_peek(s) # QUOTE
    THEN string_loop(Scanner_advance(
             IF Scanner_peek(s) = NL THEN [s EXCEPT !.line = @ + 1] ELSE s))
    ELSE s

string(s) ==
    LET s1 == string_loop(s)
        s2 == IF Scanner_is_at_end(s1)
              THEN Scanner_report(s1, Error(s1.line, <<"Unterminated string">>, <<>>))
              ELSE s1
        s3 == Scanner_advance(s2)
    IN  IF s3.fault THEN s3
        ELSE add_token(s3, "String", LitString(slice(s3, s3.start + 1, s3.current - 1)))

\* the value of a run of digits
RECURSIVE DecValue(_)
DecValue(ds) ==
    IF ds = <<>> THEN 0
    ELSE DecValue(SubSeq(ds, 1, Len(ds) - 1)) * 10 + DigitValue(ds[Len(ds)])

RECURSIVE Normalize(_, _)
Normalize(n, sc) ==
    IF sc > 0 /\ n % 10 = 0 THEN Normalize(n \div 10, sc - 1) ELSE LitNumber(n, sc)

\* literal.parse::<f64>() of a lexeme digits[.digits]
parse_f64(lex) ==
    IF \E i \in 1..Len(lex) : lex[i] = "."
    THEN LET d == CHOOSE i \in 1..Len(lex) : lex[i] = "."
             frac == SubSeq(lex, d + 1, Len(lex))
         IN  Normalize(DecValue(SubSeq(lex, 1, d - 1) \o frac), Len(frac))
    ELSE Normalize(DecValue(lex), 0)

\* number: the digit loops of lines 209-211, 216-218 and 221-223
RECURSIVE number_digits(_)
number_digits(s) ==
    IF ~Scanner_is_at_end(s) /\ is_digit(Scanner_peek(s))
    THEN number_digits(Scanner_advance(s))
    ELSE s

number(s) ==
    LET s1 == number_digits(s)
        s2 == IF ~Scanner_is_at_end(s1) /\ Scanner_peek(s1) = "." /\ is_digit(peek_next(s1))
              THEN number_digits(Scanner_advance(s1))
              ELSE s1
        s3 == number_digits(s2)
    IN  add_token(s3, "Number", parse_f64(slice(s3, s3.start, s3.current)))

\* identifier: the loop of lines 239-241; peek() panics at the end of the source
RECURSIVE identifier_loop(_)
identifier_loop(s) ==
    IF Scanner_peek(s) = None THEN Scanner_panic(s)
    ELSE IF is_alpha_numeric(Scanner_peek(s)) THEN identifier_loop(Scanner_advance(s))
    ELSE s

identifier(s) ==
    LET s1 == identifier_loop(s)
    IN  IF s1.fault THEN s1
        ELSE add_token(s1, keywords_get(slice(s1, s1.start, s1.current)), LitNone)

\* the line comment loop of lines 111-113: peek() is evaluated before is_at_end()
RECURSIVE line_comment(_)
line_comment(s) ==
    IF Scanner_peek(s) = None THEN Scanner_panic(s)
    ELSE IF Scanner_peek(s) # NL /\ ~Scanner_is_at_end(s) THEN line_comment(Scanner_advance(s))
    ELSE s

\* the block comment loop counting lines the way the loop of string does
RECURSIVE block_comment_loop_counting(_)
block_comment_loop_counting(s) ==
    IF ~(Scanner_is_at_end(s) \/ (Scanner_peek(s) = "*" /\ peek_next(s) = "/"))
    THEN block_comment_loop_counting(Scanner_advance(
             IF Scanner_peek(s) = NL THEN [s EXCEPT !.line = @ + 1] ELSE s))
    ELSE s

\* the block comment loop of lines 116-118
RECURSIVE block_comment_loop(_)
block_comment_loop(s) ==
    IF ~(Scanner_is_at_end(s) \/ (Scanner_peek(s) = "*" /\ peek_next(s) = "/"))
    THEN block_comment_loop(Scanner_advance(s))
    ELSE s

\* lines 114-122: the loop, then advance twice to skip the terminator
block_comment(s) == Scanner_advance(Scanner_advance(block_comment_loop(s)))

one_or_two(s, two, one) ==
    IF next_matches_test(s, "=")
    THEN add_token(next_matches(s, "="), two, LitNone)
    ELSE add_token(s, one, LitNone)

slash(s) ==
    IF next_matches_test(s, "/") THEN line_comment(next_matches(s, "/"))
    ELSE IF next_matches_test(s, "*") THEN block_comment(next_matches(s, "*"))
    ELSE add_token(s, "Slash", LitNone)

scan_token(s0) ==
    LET c == nth(s0, s0.current)
        s == Scanner_advance(s0)
    IN  IF s.fault THEN s
        ELSE CASE c = "(" -> add_token(s, "LeftParen", LitNone)
               [] c = ")" -> add_token(s, "RightParen", LitNone)
               [] c = "{" -> add_token(s, "LeftBrace", LitNone)
               [] c = "}" -> add_token(s, "RightBrace", LitNone)
               [] c = "," -> add_token(s, "Comma", LitNone)
               [] c = "." -> add_token(s, "Dot", LitNone)
               [] c = "-" -> add_token(s, "Minus", LitNone)
               [] c = "+" -> add_token(s, "Plus", LitNone)
               [] c = ";" -> add_token(s, "Semicolon", LitNone)
               [] c = ":" -> add_token(s, "Colon", LitNone)
               [] c = "*" -> add_token(s, "Star", LitNone)
               [] c = "!" -> one_or_two(s, "BangEqual", "Bang")
               [] c = "=" -> one_or_two(s, "EqualEqual", "Equal")
               [] c = ">" -> one_or_two(s, "GreaterEqual", "Greater")
               [] c = "<" -> one_or_two(s, "LessEqual", "Less")
               [] c = "/" -> slash(s)
               [] c = QUOTE -> string(s)
               [] c \in {" ", CR, TAB} -> s
               [] c = NL -> [s EXCEPT !.line = @ + 1]
               [] OTHER ->
                    IF is_digit(c) THEN number(s)
                    ELSE IF is_alpha(c) THEN identifier(s)
                    ELSE Scanner_report(s, Error(s.line, <<"Unexpected character: ", c>>, <<>>))

\* the Eof token with the line of the first token instead of self.line
EofToken_first_line(ln) == Token("Eof", <<>>, LitNone, 1)

EofToken(ln) == Token("Eof", <<>>, LitNone, ln)

\* scan_tokens as a function of the scanner it is called on: the loop of
\* lines 46-49, then the Eof token
RECURSIVE scan_loop(_)
scan_loop(s) ==
    IF s.fault \/ Scanner_is_at_end(s) THEN s
    ELSE scan_loop(scan_token([s EXCEPT !.start = s.current]))

scan_tokens(s) ==
    LET s1 == scan_loop(s)
    IN  IF s1.fault THEN s1
        ELSE [s1 EXCEPT !.tokens = Append(@, EofToken(s1.line))]

----------------------------------------------------------------------------
(* syntax_tree.rs: Expr *)

Expr_Ternary(c, th, el) == [node |-> "Ternary", condition |-> c, then |-> th, else |-> el]

Expr_Binary(l, op, r) == [node |-> "Binary", left |-> l, operator |-> op, right |-> r]

Expr_Unary(op, r) == [node |-> "Unary", operator |-> op, right |-> r]

Expr_Grouping(e) == [node |-> "Grouping", expression |-> e]

\* Literal::new(v): value is Some(v)
Expr_Literal(v) == [node |-> "Literal", value |-> v]

NoExpr == [node |-> "None"]

----------------------------------------------------------------------------
(* f64.  A finite value is the f64 nearest to the rational num / den (in    *)
(* lowest terms) with the sign neg: that rational itself when den is a      *)
(* power of two.  Zero is signed.  The magnitudes of the model are far      *)
(* from the range limits of f64.                                            *)

RECURSIVE GCD(_, _)
GCD(a, b) == IF b = 0 THEN a ELSE GCD(b, a % b)

RECURSIVE Pow10(_)
Pow10(n) == IF n = 0 THEN 1 ELSE 10 * Pow10(n - 1)

RECURSIVE IsPowerOfTwo(_)
IsPowerOfTwo(d) == d = 1 \/ (d % 2 = 0 /\ IsPowerOfTwo(d \div 2))

Finite(neg, num, den) ==
    [class |-> "finite", neg |-> neg, num |-> num \div GCD(num, den),
     den |-> den \div GCD(num, den)]

Infinity(neg) == [class |-> "inf", neg |-> neg, num |-> 0, den |-> 1]

NaN == [class |-> "nan", neg |-> FALSE, num |-> 0, den |-> 1]

\* the f64 of a LiteralType::Number, which is num / 10^scale
f64_of_literal(lit) == Finite(FALSE, lit.num, Pow10(lit.scale))

\* the value is the rational itself: arithmetic on it rounds once
Representable(x) == x.class = "finite" /\ IsPowerOfTwo(x.den)

Signed(x) == IF x.neg THEN 0 - x.num ELSE x.num

Abs(n) == IF n < 0 THEN 0 - n ELSE n

f64_neg(x) == IF x.class = "nan" THEN x ELSE [x EXCEPT !.neg = ~@]

\* l + r of two finite values: an exact zero sum is -0 only for -0 + -0
f64_add(l, r) ==
    IF Signed(l) * r.den + Signed(r) * l.den = 0
    THEN Finite(l.neg /\ r.neg, 0, 1)
    ELSE Finite(Signed(l) * r.den + Signed(r) * l.den < 0,
                Abs(Signed(l) * r.den + Signed(r) * l.den), l.den * r.den)

\* r - l in the place of l - r
f64_sub_operands_swapped(l, r) == f64_add(r, f64_neg(l))

f64_sub(l, r) == f64_add(l, f64_neg(r))

f64_mul(l, r) == Finite(l.neg # r.neg, l.num * r.num, l.den * r.den)

\* l / r of two finite values: 0 / 0 is NaN, x / 0 an infinity
f64_div(l, r) ==
    IF r.num = 0
    THEN IF l.num = 0 THEN NaN ELSE Infinity(l.neg # r.neg)
    ELSE Finite(l.neg # r.neg, l.num * r.den, l.den * r.num)

\* l < r: false when either is NaN
f64_lt(l, r) ==
    IF l.class = "nan" \/ r.class = "nan" THEN FALSE
    ELSE IF l.class = "inf" THEN l.neg /\ ~(r.class = "inf" /\ r.neg)
    ELSE IF r.class = "inf" THEN ~r.neg
    ELSE Signed(l) * r.den < Signed(r) * l.den

\* l == r: false when either is NaN; -0 == 0
f64_eq(l, r) ==
    IF l.class = "nan" \/ r.class = "nan" THEN FALSE
    ELSE IF l.class = "inf" \/ r.class = "inf" THEN l.class = r.class /\ l.neg = r.neg
    ELSE Signed(l) * r.den = Signed(r) * l.den

----------------------------------------------------------------------------
(* syntax_tree.rs: Value and Eval.  eval returns a result r: kind "Ok"     *)
(* with the value, kind "Err" with the RuntimeError, or kind "Untracked"   *)
(* when the arithmetic leaves the f64 values above (an operand that is     *)
(* not the rational itself, or not finite).  r.trace is the sequence of     *)
(* the expressions eval was called on, in the order of the calls.          *)

Value_Nil == [kind |-> "Nil", bool |-> FALSE, number |-> NaN, text |-> <<>>]
Value_Boolean(b) == [kind |-> "Boolean", bool |-> b, number |-> NaN, text |-> <<>>]
Value_Number(x) == [kind |-> "Number", bool |-> FALSE, number |-> x, text |-> <<>>]
Value_String(t) == [kind |-> "String", bool |-> FALSE, number |-> NaN, text |-> t]

\* is_truthy with the Number 0 and the empty String falsy as well
is_truthy_zero_and_empty_falsy(v) ==
    CASE v.kind = "Nil" -> FALSE
      [] v.kind = "Boolean" -> v.bool
      [] v.kind = "Number" -> v.number.num # 0
      [] OTHER -> v.text # <<>>

is_truthy(v) ==
    CASE v.kind = "Nil" -> FALSE
      [] v.kind = "Boolean" -> v.bool
      [] OTHER -> TRUE

\* variant_eq that holds of every two values
variant_eq_of_any_two(a, b) == TRUE

\* std::mem::discriminant(a) == std::mem::discriminant(b)
variant_eq(a, b) == a.kind = b.kind

RuntimeError(tok, msg) == [token |-> tok, message |-> msg]

NoRuntimeError == RuntimeError(Token("Nil", <<>>, LitNone, 0), <<>>)

EvalOk(v) == [kind |-> "Ok", value |-> v, error |-> NoRuntimeError, trace |-> <<>>]

EvalErr(e) == [kind |-> "Err", value |-> Value_Nil, error |-> e, trace |-> <<>>]

Untracked == [kind |-> "Untracked", value |-> Value_Nil, error |-> NoRuntimeError, trace |-> <<>>]

\* the result r of a call whose own calls of eval are tr
Traced(r, tr) == [r EXCEPT !.trace = tr]

InvalidBinaryOperator(operator) ==
    EvalErr(RuntimeError(operator, <<"Invalid binary expression operator.">>))

\* l + r, l - r, l / r, l * r, whose value is x
Arithmetic(l, r, x) ==
    IF Representable(l) /\ Representable(r) THEN EvalOk(Value_Number(x)) ELSE Untracked

\* lines 174-193: both operands are Numbers
Binary_eval_numbers(operator, l, r) ==
    CASE operator.type = "Plus" -> Arithmetic(l, r, f64_add(l, r))
      [] operator.type = "Minus" -> Arithmetic(l, r, f64_sub(l, r))
      [] operator.type = "Slash" -> Arithmetic(l, r, f64_div(l, r))
      [] operator.type = "Star" -> Arithmetic(l, r, f64_mul(l, r))
      [] operator.type = "Greater" -> EvalOk(Value_Boolean(f64_lt(r, l)))
      [] operator.type = "GreaterEqual" -> EvalOk(Value_Boolean(f64_lt(r, l) \/ f64_eq(l, r)))
      [] operator.type = "Less" -> EvalOk(Value_Boolean(f64_lt(l, r)))
      [] operator.type = "LessEqual" -> EvalOk(Value_Boolean(f64_lt(l, r) \/ f64_eq(l, r)))
      [] operator.type = "BangEqual" -> EvalOk(Value_Boolean(~f64_eq(l, r)))
      [] operator.type = "EqualEqual" -> EvalOk(Value_Boolean(f64_eq(l, r)))
      [] OTHER -> InvalidBinaryOperator(operator)

\* lines 195-205: both operands are Strings
Binary_eval_strings(operator, l, r) ==
    IF operator.type = "Plus" THEN EvalOk(Value_String(l \o r))
    ELSE InvalidBinaryOperator(operator)

\* lines 167-211: left and right are the values of the operands
Binary_eval_values_comma_yields_right(operator, left, right) ==
    IF operator.type = "Comma" THEN EvalOk(right)
    ELSE IF ~variant_eq(left, right)
    THEN EvalErr(RuntimeError(operator, <<"Types don't match in binary expression.">>))
    ELSE IF left.kind = "Number" THEN Binary_eval_numbers(operator, left.number, right.number)
    ELSE IF left.kind = "String" THEN Binary_eval_strings(operator, left.text, right.text)
    ELSE InvalidBinaryOperator(operator)

Binary_eval_values(operator, left, right) ==
    IF ~variant_eq(left, right)
    THEN EvalErr(RuntimeError(operator, <<"Types don't match in binary expression.">>))
    ELSE IF left.kind = "Number" THEN Binary_eval_numbers(operator, left.number, right.number)
    ELSE IF left.kind = "String" THEN Binary_eval_strings(operator, left.text, right.text)
    ELSE InvalidBinaryOperator(operator)

\* lines 239-252: right is the value of the operand
Unary_eval_value(operator, right) ==
    CASE operator.type = "Bang" -> EvalOk(Value_Boolean(~is_truthy(right)))
      [] operator.type = "Minus" ->
            IF right.kind = "Number" THEN EvalOk(Value_Number(f64_neg(right.number)))
            ELSE EvalErr(RuntimeError(operator,
                     <<"Minus should only be used with the number type.">>))
      [] OTHER -> EvalErr(RuntimeError(operator, <<"Invalid operator in unary expression.">>))

\* self.value.to_owned().unwrap_or(LiteralType::Nil), and the Value of it
Literal_eval(self) ==
    Traced(CASE self.value.kind = "Number" -> EvalOk(Value_Number(f64_of_literal(self.value)))
             [] self.value.kind = "String" -> EvalOk(Value_String(self.value.text))
             [] self.value.kind = "Bool" -> EvalOk(Value_Boolean(self.value.bool))
             [] OTHER -> EvalOk(Value_Nil),
           <<self>>)

\* Each eval is split at its calls of eval: left, right, condition, branch
\* and e are what those calls returned.
RECURSIVE eval(_), Ternary_eval(_, _)

\* lines 163-165, then lines 167-211
Binary_eval(self, left, right) ==
    IF left.kind # "Ok" THEN Traced(left, <<self>> \o left.trace)
    ELSE IF right.kind # "Ok" THEN Traced(right, <<self>> \o left.trace \o right.trace)
    ELSE Traced(Binary_eval_values(self.operator, left.value, right.value),
                <<self>> \o left.trace \o right.trace)

\* line 237, then lines 239-252
Unary_eval(self, right) ==
    IF right.kind # "Ok" THEN Traced(right, <<self>> \o right.trace)
    ELSE Traced(Unary_eval_value(self.operator, right.value), <<self>> \o right.trace)

\* Grouping::eval turning the RuntimeError of its expression into Nil
Grouping_eval_error_to_nil(self, e) ==
    Traced(IF e.kind = "Err" THEN EvalOk(Value_Nil) ELSE e, <<self>> \o e.trace)

Grouping_eval(self, e) == Traced(e, <<self>> \o e.trace)

\* lines 117 and 119: what the eval of the branch taken returned
Ternary_branch(self, condition, branch) ==
    Traced(branch, <<self>> \o condition.trace \o branch.trace)

\* Ternary::eval choosing the branch by the truthiness of the condition
Ternary_eval_by_truthiness(self, condition) ==
    IF condition.kind # "Ok" THEN Traced(condition, <<self>> \o condition.trace)
    ELSE Ternary_branch(self, condition,
                        eval(IF is_truthy(condition.value) THEN self.then ELSE self.else))

\* line 112, then lines 114-130
Ternary_eval(self, condition) ==
    IF condition.kind # "Ok" THEN Traced(condition, <<self>> \o condition.trace)
    ELSE IF condition.value.kind = "Boolean"
    THEN Ternary_branch(self, condition,
                        eval(IF condition.value.bool THEN self.then ELSE self.else))
    ELSE Traced(EvalErr(RuntimeError(Token("Question", <<"?">>, LitNone, 0),
             <<"We shouldn't be here... ternary condition didn't returned a boolean.">>)),
                <<self>> \o condition.trace)

\* impl Eval for Expr
eval(e) ==
    CASE e.node = "Ternary" -> Ternary_eval(e, eval(e.condition))
      [] e.node = "Binary" -> Binary_eval(e, eval(e.left), eval(e.right))
      [] e.node = "Unary" -> Unary_eval(e, eval(e.right))
      [] e.node = "Grouping" -> Grouping_eval(e, eval(e.expression))
      [] e.node = "Literal" -> Literal_eval(e)

----------------------------------------------------------------------------
(* syntax_tree.rs: PrettyPrint.  A String is a sequence of characters.     *)

RECURSIVE DigitsOf(_)
DigitsOf(n) ==
    IF n < 10 THEN <<DigitSeq[n + 1]>>
    ELSE DigitsOf(n \div 10) \o <<DigitSeq[(n % 10) + 1]>>

\* the last w digits of n
RECURSIVE FractionDigits(_, _)
FractionDigits(n, w) ==
    IF w = 0 THEN <<>>
    ELSE FractionDigits(n \div 10, w - 1) \o <<DigitSeq[(n % 10) + 1]>>

\* write!(f, "{}", n) of the f64 of a Number literal: the shortest decimal
\* that reads back as the same f64, which is the literal without the
\* trailing zeros of its fraction
fmt_f64(lit) ==
    IF lit.scale = 0 THEN DigitsOf(lit.num)
    ELSE DigitsOf(lit.num \div Pow10(lit.scale)) \o <<".">>
             \o FractionDigits(lit.num, lit.scale)

\* impl Display for LiteralType
LiteralType_fmt(v) ==
    CASE v.kind = "Number" -> fmt_f64(v)
      [] v.kind = "String" -> v.text
      [] v.kind = "Bool" -> IF v.bool THEN <<"t", "r", "u", "e">>
                            ELSE <<"f", "a", "l", "s", "e">>
      [] v.kind = "Nil" -> <<"n", "i", "l">>

Literal_pretty_print(self) ==
    IF self.value.kind = "None" THEN <<"N", "i", "l">> ELSE LiteralType_fmt(self.value)

RECURSIVE pretty_print(_)

\* format!("(ternary {} ? {} : {})", ...)
Ternary_pretty_print(c, t, e) ==
    <<"(", "t", "e", "r", "n", "a", "r", "y", " ">> \o c \o <<" ", "?", " ">> \o t
        \o <<" ", ":", " ">> \o e \o <<")">>

\* format!("({} {} {})", self.operator.lexeme, ...)
Binary_pretty_print(self, l, r) ==
    <<"(">> \o self.operator.lexeme \o <<" ">> \o l \o <<" ">> \o r \o <<")">>

\* format!("({} {})", self.operator.lexeme, ...)
Unary_pretty_print(self, r) ==
    <<"(">> \o self.operator.lexeme \o <<" ">> \o r \o <<")">>

\* format!("(group {})", ...)
Grouping_pretty_print(e) == <<"(", "g", "r", "o", "u", "p", " ">> \o e \o <<")">>

\* impl PrettyPrint for Expr
pretty_print(e) ==
    CASE e.node = "Ternary" ->
            Ternary_pretty_print(pretty_print(e.condition), pretty_print(e.then),
                                 pretty_print(e.else))
      [] e.node = "Binary" ->
            Binary_pretty_print(e, pretty_print(e.left), pretty_print(e.right))
      [] e.node = "Unary" -> Unary_pretty_print(e, pretty_print(e.right))
      [] e.node = "Grouping" -> Grouping_pretty_print(pretty_print(e.expression))
      [] e.node = "Literal" -> Literal_pretty_print(e)

ast_print(expr) == pretty_print(expr)

----------------------------------------------------------------------------
(* parser.rs.  A parser record p holds the fields of Parser and             *)
(* overflow_checks: whether the build panics on an integer overflow (the   *)
(* debug profile) or wraps (the release profile).  A rule returns a result *)
(* r: kind "Ok" with the expression, kind "Err" with the ParseError, or    *)
(* kind "Panic"; r.p is the parser after the rule and r.out the lines the  *)
(* rule wrote to the error stream.                                         *)

ParseError(tok, msg) == [token |-> tok, message |-> msg]

NoError == ParseError(Token("Nil", <<>>, LitNone, 0), <<>>)

Ok(e, p) == [kind |-> "Ok", expr |-> e, p |-> p, out |-> <<>>, error |-> NoError]

Err(e, p, out) == [kind |-> "Err", expr |-> NoExpr, p |-> p, out |-> out, error |-> e]

Panic(p, out) == [kind |-> "Panic", expr |-> NoExpr, p |-> p, out |-> out, error |-> NoError]

Parser_new(toks, oc) == [tokens |-> toks, current |-> 0, overflow_checks |-> oc]

\* errors::error: the lines it writes.  The Eof branch does not return, so
\* the second report follows it.
errors_error(tok, msg) ==
    (IF tok.type = "Eof"
     THEN <<report(Error(tok.line, msg, <<" at the end">>))>>
     ELSE <<>>)
    \o <<report(Error(tok.line, msg, <<" at '">> \o tok.lexeme \o <<"'">>))>>

\* Parser::error tagging the error with an Eof token in place of the token given
Parser_error_tagged_eof(tok, msg) == ParseError(Token("Eof", <<>>, LitNone, tok.line), msg)

\* Parser::error: the ParseError it returns; it writes errors_error(tok, msg)
Parser_error(tok, msg) == ParseError(tok, msg)

\* peek: self.tokens.get(self.current).unwrap() panics when the cursor is
\* outside the token buffer
peek_panics(p) == p.current >= Len(p.tokens)

Parser_peek(p) == p.tokens[p.current + 1]

Parser_is_at_end(p) == Parser_peek(p).type = "Eof"

check(p, t) == IF Parser_is_at_end(p) THEN FALSE ELSE Parser_peek(p).type = t

\* previous: kind "Ok" with the token, "Err" with the ParseError, or
\* "Panic" (self.current - 1 overflows at 0 under overflow checks; without
\* them it wraps to usize::MAX, where get() finds no token)
previous(p) ==
    IF p.current = 0 /\ p.overflow_checks
    THEN [kind |-> "Panic", token |-> Token("Nil", <<>>, LitNone, 0)]
    ELSE IF p.current = 0 \/ p.current - 1 >= Len(p.tokens)
    THEN [kind |-> "Err", token |-> Token("Nil", <<>>, LitNone, 0)]
    ELSE [kind |-> "Ok", token |-> p.tokens[p.current]]

absense == ParseError(Token("Nil", <<>>, LitNone, 0), <<"unexpected absense of token">>)

\* a failed previous()? as the result of the rule that called it
previous_failed(prev, p) ==
    IF prev.kind = "Panic" THEN Panic(p, <<>>) ELSE Err(absense, p, <<>>)

\* advance: the parser after it; it returns previous() of that parser
Parser_advance(p) ==
    IF ~Parser_is_at_end(p) THEN [p EXCEPT !.current = @ + 1] ELSE p

\* match: kind "Panic" when peek() panics, else whether it matched and the
\* parser after it; the result of its advance() is dropped (let _ =)
match(p, types) ==
    IF peek_panics(p) THEN [kind |-> "Panic", matched |-> FALSE, p |-> p]
    ELSE IF \E t \in types : check(p, t)
    THEN IF previous(Parser_advance(p)).kind = "Panic"
         THEN [kind |-> "Panic", matched |-> FALSE, p |-> Parser_advance(p)]
         ELSE [kind |-> "Ok", matched |-> TRUE, p |-> Parser_advance(p)]
    ELSE [kind |-> "Ok", matched |-> FALSE, p |-> p]

\* consume: advance() when the token is there; else it reports the error
\* and panics (panic!("{:?}", e))
consume(p, t, message) ==
    IF peek_panics(p) THEN Panic(p, <<>>)
    ELSE IF check(p, t)
    THEN IF previous(Parser_advance(p)).kind = "Ok" THEN Ok(NoExpr, Parser_advance(p))
         ELSE previous_failed(previous(Parser_advance(p)), Parser_advance(p))
    ELSE Panic(p, errors_error(Parser_peek(p), message))

\* let op = self.previous()?; let right = self.<operand>()?;
\* expr = Expr::Binary(Box::new(Binary::new(expr, op, right)))
\* p is the parser after the operator was matched
binary(p, expr, op, right) ==
    IF op.kind # "Ok" THEN previous_failed(op, p)
    ELSE IF right.kind # "Ok" THEN right
    ELSE Ok(Expr_Binary(expr, op.token, right.expr), right.p)

\* Each rule is split at its calls: rule(p) parses the first operand,
\* rule_rest(r) is the rule from the test of its loop on, r being the result
\* so far, and rule_loop(p, expr, m) is the body of the loop, m being the
\* result of the match in the test.
RECURSIVE expression(_),
          comma(_), comma_rest(_), comma_loop(_, _, _),
          ternary(_), ternary_rest(_), ternary_loop(_, _, _), ternary_then(_, _),
          ternary_colon(_, _, _), ternary_else(_, _, _),
          equality(_), equality_rest(_), equality_loop(_, _, _),
          comparison(_), comparison_rest(_), comparison_loop(_, _, _),
          term(_), term_rest(_), term_loop(_, _, _),
          factor(_), factor_rest(_), factor_loop(_, _, _),
          unary(_), unary_matched(_, _), primary(_), primary_matched(_, _, _, _, _, _),
          grouping(_), grouping_close(_, _)

\* lines 147-154: e is the result of expression(), c of consume()
grouping_close(e, c) ==
    IF c.kind # "Ok" THEN c ELSE Ok(Expr_Grouping(e.expr), c.p)

grouping(e) ==
    IF e.kind # "Ok" THEN e
    ELSE grouping_close(e, consume(e.p, "RightParen", <<"Expect ')' after expression">>))

\* lines 132-157: mf, mt, mn, ml, mp are the results of the five matches,
\* of which the first that matched is the only one the code makes
primary_matched(p, mf, mt, mn, ml, mp) ==
    IF mf.kind = "Panic" THEN Panic(p, <<>>)
    ELSE IF mf.matched THEN Ok(Expr_Literal(LitBool(FALSE)), mf.p)
    ELSE IF mt.matched THEN Ok(Expr_Literal(LitBool(TRUE)), mt.p)
    ELSE IF mn.matched THEN Ok(Expr_Literal(LitNil), mn.p)
    ELSE IF ml.matched
    THEN IF previous(ml.p).kind # "Ok" THEN previous_failed(previous(ml.p), ml.p)
         \* prev.literal.unwrap()
         ELSE IF previous(ml.p).token.literal = LitNone THEN Panic(ml.p, <<>>)
         ELSE Ok(Expr_Literal(previous(ml.p).token.literal), ml.p)
    ELSE IF mp.matched THEN grouping(expression(mp.p))
    ELSE Err(Parser_error(Parser_peek(p), <<"expect expression">>), p,
             errors_error(Parser_peek(p), <<"expect expression">>))

primary(p) ==
    primary_matched(p, match(p, {"False"}), match(p, {"True"}), match(p, {"Nil"}),
                    match(p, {"Number", "String"}), match(p, {"LeftParen"}))

\* lines 122-128: m is the result of the match
unary_node(p, op, right) ==
    IF op.kind # "Ok" THEN previous_failed(op, p)
    ELSE IF right.kind # "Ok" THEN right
    ELSE Ok(Expr_Unary(op.token, right.expr), right.p)

unary_matched(p, m) ==
    IF m.kind = "Panic" THEN Panic(p, <<>>)
    ELSE IF m.matched THEN unary_node(m.p, previous(m.p), unary(m.p))
    ELSE primary(p)

unary(p) == unary_matched(p, match(p, {"Bang", "Minus"}))

factor_loop(p, expr, m) ==
    IF m.kind = "Panic" THEN Panic(p, <<>>)
    ELSE IF ~m.matched THEN Ok(expr, p)
    ELSE factor_rest(binary(m.p, expr, previous(m.p), unary(m.p)))

factor_rest(r) ==
    IF r.kind # "Ok" THEN r
    ELSE factor_loop(r.p, r.expr, match(r.p, {"Slash", "Star"}))

factor(p) == factor_rest(unary(p))

\* term_loop with the right operand parsed by term(): the level nests to the right
term_loop_right_operand_by_term(p, expr, m) ==
    IF m.kind = "Panic" THEN Panic(p, <<>>)
    ELSE IF ~m.matched THEN Ok(expr, p)
    ELSE binary(m.p, expr, previous(m.p), term(m.p))

term_loop(p, expr, m) ==
    IF m.kind = "Panic" THEN Panic(p, <<>>)
    ELSE IF ~m.matched THEN Ok(expr, p)
    ELSE term_rest(binary(m.p, expr, previous(m.p), factor(m.p)))

term_rest(r) ==
    IF r.kind # "Ok" THEN r
    ELSE term_loop(r.p, r.expr, match(r.p, {"Minus", "Plus"}))

term(p) == term_rest(factor(p))

comparison_loop(p, expr, m) ==
    IF m.kind = "Panic" THEN Panic(p, <<>>)
    ELSE IF ~m.matched THEN Ok(expr, p)
    ELSE comparison_rest(binary(m.p, expr, previous(m.p), term(m.p)))

comparison_rest(r) ==
    IF r.kind # "Ok" THEN r
    ELSE comparison_loop(r.p, r.expr,
                         match(r.p, {"Greater", "GreaterEqual", "Less", "LessEqual"}))

comparison(p) == comparison_rest(term(p))

equality_loop(p, expr, m) ==
    IF m.kind = "Panic" THEN Panic(p, <<>>)
    ELSE IF ~m.matched THEN Ok(expr, p)
    ELSE equality_rest(binary(m.p, expr, previous(m.p), comparison(m.p)))

equality_rest(r) ==
    IF r.kind # "Ok" THEN r
    ELSE equality_loop(r.p, r.expr, match(r.p, {"BangEqual", "EqualEqual"}))

equality(p) == equality_rest(comparison(p))

\* lines 60-62: el is the result of the ternary() of the else branch
ternary_else(expr, then, el) ==
    IF el.kind # "Ok" THEN el
    ELSE ternary_rest(Ok(Expr_Ternary(expr, then.expr, el.expr), el.p))

\* ternary_colon with the else branch parsed by equality(), which leaves a
\* following `?` to the loop
ternary_colon_else_by_equality(expr, then, c) ==
    IF c.kind = "Panic" THEN c
    ELSE ternary_else(expr, then, equality(c.p))

\* lines 55-60: c is the result of consume(); an Err is dropped (let _ =),
\* a panic is not
ternary_colon(expr, then, c) ==
    IF c.kind = "Panic" THEN c
    ELSE ternary_else(expr, then, ternary(c.p))

\* lines 51-58: then is the result of the ternary() of the then branch
ternary_then(expr, then) ==
    IF then.kind # "Ok" THEN then
    ELSE ternary_colon(expr, then,
                       consume(then.p, "Colon", <<"Expect ':' after ternary condition.">>))

ternary_loop(p, expr, m) ==
    IF m.kind = "Panic" THEN Panic(p, <<>>)
    ELSE IF ~m.matched THEN Ok(expr, p)
    ELSE ternary_then(expr, ternary(m.p))

ternary_rest(r) ==
    IF r.kind # "Ok" THEN r
    ELSE ternary_loop(r.p, r.expr, match(r.p, {"Question"}))

ternary(p) == ternary_rest(equality(p))

comma_loop(p, expr, m) ==
    IF m.kind = "Panic" THEN Panic(p, <<>>)
    ELSE IF ~m.matched THEN Ok(expr, p)
    ELSE comma_rest(binary(m.p, expr, previous(m.p), ternary(m.p)))

comma_rest(r) ==
    IF r.kind # "Ok" THEN r
    ELSE comma_loop(r.p, r.expr, match(r.p, {"Comma"}))

comma(p) == comma_rest(ternary(p))

expression(p) == comma(p)

\* synchronize returns a result: kind "Ok", "Err" or "Panic", the parser
\* after it, and underflow: whether previous() computed self.current - 1
\* with current = 0
Synchronized(kind, p, underflow) == [kind |-> kind, p |-> p, underflow |-> underflow]

\* let _ = self.advance() on the parser p: adv is what its previous()
\* returned, u the underflow so far; a panic is not dropped, an Err is
RECURSIVE synchronize_loop(_, _), synchronize_advance(_, _, _)

synchronize_advance(p, adv, u) ==
    IF adv.kind = "Panic" THEN Synchronized("Panic", p, TRUE)
    ELSE synchronize_loop(p, u \/ adv.kind = "Err")

\* lines 174-193, from the test of the loop on
synchronize_loop(p, u) ==
    IF peek_panics(p) THEN Synchronized("Panic", p, u)
    ELSE IF Parser_is_at_end(p) THEN Synchronized("Ok", p, u)
    ELSE IF previous(p).kind = "Panic" THEN Synchronized("Panic", p, TRUE)
    ELSE IF previous(p).kind = "Err" THEN Synchronized("Err", p, TRUE)
    ELSE IF previous(p).token.type = "Semicolon" THEN Synchronized("Ok", p, u)
    ELSE IF Parser_peek(p).type \in {"Class", "Fun", "Var", "For", "If", "While", "Print",
                                     "Return"}
    THEN Synchronized("Ok", p, u)
    ELSE synchronize_advance(Parser_advance(p), previous(Parser_advance(p)), u)

synchronize(p) ==
    IF peek_panics(p) THEN Synchronized("Panic", p, FALSE)
    ELSE synchronize_advance(Parser_advance(p), previous(Parser_advance(p)), FALSE)

\* Option<Expr>
Some(e) == [some |-> TRUE, expr |-> e]
NoneExpr == [some |-> FALSE, expr |-> NoExpr]

\* parse: the result of expression(), and what parse makes of it
parse_result_only_at_eof(r) ==
    [r EXCEPT !.expr = IF r.kind = "Ok" /\ Parser_is_at_end(r.p) THEN Some(r.expr)
                       ELSE NoneExpr]

parse_result(r) == [r EXCEPT !.expr = IF r.kind = "Ok" THEN Some(r.expr) ELSE NoneExpr]

parse(p) == parse_result(expression(p))

----------------------------------------------------------------------------
(* The bounded source texts *)

MaxAnyLen == 2
MaxCommentLen == 6
MaxWordLen == 4
MaxExprLen == 5
MaxTokens == 5

Seqs(S, n) == UNION { [1..k -> S] : k \in 0..n }

\* every class of character scan_token tells apart
AnyChars ==
    { "(", ")", "{", "}", ",", ".", "-", "+", ";", ":", "*", "?",
      "!", "=", "<", ">", "/", QUOTE, " ", CR, TAB, NL, "1", "o", "r", "_", "#" }

CommentChars == { "/", "*", NL, "1" }

WordChars == { "o", "r", "_", "1", ".", " ", QUOTE, NL }

ExprChars == { "1", "?", ":", "(", ")", "+" }

\* the sources of test::ternary, test::ternary_complex,
\* test::comma_separated_expressions and test::grouping_unary of parser.rs
TestSources ==
    { <<"1", " ", "=", "=", " ", "1", " ", "?", " ", "2", " ", ":", " ", "3">>,
      <<"5", " ", "*", " ", "2", "0", " ", "=", "=", " ", "9", "9", " ", "?", " ",
        "1", "0", " ", ":", " ", "3", " ", "<", " ", "2", " ", "?", " ", "1", " ",
        ":", " ", "0">>,
      <<"1", "+", "1", ",", "1", "-", "1", ",", "1", "=", "=", "1">>,
      <<"(", "-", "1", ")">> }

MaxNumber == 2
MaxTextLen == 1

\* the expressions handed to eval and ast_print directly
LiteralValues ==
    { LitNumber(n, 0) : n \in 0..MaxNumber } \cup { LitNumber(5, 1) }
        \cup { LitString(t) : t \in Seqs({"a"}, MaxTextLen) }
        \cup { LitBool(TRUE), LitBool(FALSE), LitNil }

Literals == { Expr_Literal(v) : v \in LiteralValues }

OperatorToken(t, lex) == Token(t, lex, LitNone, 1)

\* the operators of Binary::eval and Unary::eval, and two that are neither's
EvalOperators ==
    { OperatorToken("Plus", <<"+">>), OperatorToken("Minus", <<"-">>),
      OperatorToken("Slash", <<"/">>), OperatorToken("Star", <<"*">>),
      OperatorToken("Greater", <<">">>), OperatorToken("GreaterEqual", <<">", "=">>),
      OperatorToken("Less", <<"<">>), OperatorToken("LessEqual", <<"<", "=">>),
      OperatorToken("BangEqual", <<"!", "=">>), OperatorToken("EqualEqual", <<"=", "=">>),
      OperatorToken("Bang", <<"!">>), OperatorToken("Comma", <<",">>),
      OperatorToken("Question", <<"?">>) }

Negations == { Expr_Unary(OperatorToken("Minus", <<"-">>), e) : e \in Literals }

\* a literal, or a literal under `-` or parentheses: the String, Boolean and
\* Nil literals under `-` are the operands whose eval fails
Operands == Literals \cup Negations \cup { Expr_Grouping(e) : e \in Literals }

Exprs ==
    Operands
        \cup { Expr_Binary(l, op, r) : l \in Operands, op \in EvalOperators, r \in Operands }
        \cup { Expr_Unary(op, r) : op \in EvalOperators, r \in Operands }
        \cup { Expr_Grouping(e) : e \in Operands }
        \cup { Expr_Ternary(c, t, e) :
               c \in Operands, t \in Literals \cup Negations, e \in Literals \cup Negations }

Sources ==
    Seqs(AnyChars, MaxAnyLen) \cup Seqs(CommentChars, MaxCommentLen)
        \cup Seqs(WordChars, MaxWordLen) \cup Seqs(ExprChars, MaxExprLen)
        \cup TestSources

----------------------------------------------------------------------------
(* The state machine: Scanner::new(source), the iterations of the loop of  *)
(* scan_tokens, its return.                                                *)

Self == [source |-> source, tokens |-> tokens, start |-> start, current |-> current,
         line |-> line, errors |-> errors, fault |-> FALSE]

NoParser == [tokens |-> <<>>, current |-> 0, underflow |-> FALSE]

\* eval was not called
NotEvaluated == [kind |-> "None", value |-> Value_Nil, error |-> NoRuntimeError, trace |-> <<>>]

\* token sequences handed to Parser::new directly: they end with an Eof token
TokenKinds ==
    { Token("Number", <<"1">>, LitNumber(1, 0), 1),
      Token("Question", <<"?">>, LitNone, 1),
      Token("Colon", <<":">>, LitNone, 1),
      Token("LeftParen", <<"(">>, LitNone, 1),
      Token("RightParen", <<")">>, LitNone, 1) }

TokenInputs == { Append(ts, EofToken(1)) : ts \in Seqs(TokenKinds, MaxTokens) }

MaxOperand == 2
MaxOperators == 2

NumberToken(n) == Token("Number", <<DigitSeq[n + 1]>>, LitNumber(n, 0), 1)

\* the operands of a ternary chain: a number, or a number in parentheses
ChainOperands ==
    { <<NumberToken(n)>> : n \in 1..MaxOperand }
        \cup { <<Token("LeftParen", <<"(">>, LitNone, 1), NumberToken(n),
                 Token("RightParen", <<")">>, LitNone, 1)>> : n \in 1..MaxOperand }

\* a ? b : c ? d : e
TernaryChains ==
    { a \o <<Token("Question", <<"?">>, LitNone, 1)>> \o b
        \o <<Token("Colon", <<":">>, LitNone, 1)>> \o c
        \o <<Token("Question", <<"?">>, LitNone, 1)>> \o d
        \o <<Token("Colon", <<":">>, LitNone, 1)>> \o e \o <<EofToken(1)>> :
      a \in ChainOperands, b \in ChainOperands, c \in ChainOperands,
      d \in ChainOperands, e \in ChainOperands }

\* one binary operator of every level, and two of the level of term
OperatorTokens ==
    { Token("Comma", <<",">>, LitNone, 1),
      Token("EqualEqual", <<"=", "=">>, LitNone, 1),
      Token("Less", <<"<">>, LitNone, 1),
      Token("Plus", <<"+">>, LitNone, 1),
      Token("Minus", <<"-">>, LitNone, 1),
      Token("Star", <<"*">>, LitNone, 1) }

\* a literal, or a literal under a unary operator
UnaryOperands ==
    { <<NumberToken(1)>>, <<Token("Minus", <<"-">>, LitNone, 1), NumberToken(1)>> }

\* operand (operator operand)^n
RECURSIVE OperatorChainsOf(_)
OperatorChainsOf(n) ==
    IF n = 0 THEN UnaryOperands
    ELSE { c \o <<op>> \o x :
           c \in OperatorChainsOf(n - 1), op \in OperatorTokens, x \in UnaryOperands }

OperatorChains ==
    { Append(c, EofToken(1)) : c \in UNION { OperatorChainsOf(n) : n \in 0..MaxOperators } }

\* Scanner::new(source)
InitSource ==
    /\ source \in Sources
    /\ tokens = Scanner_new(source).tokens
    /\ start = Scanner_new(source).start
    /\ current = Scanner_new(source).current
    /\ line = Scanner_new(source).line
    /\ errors = <<>>
    /\ pc = "scan"
    /\ returned = <<>>
    /\ parser = NoParser
    /\ parsed = NoneExpr
    /\ evaluated = NotEvaluated
    /\ printed = <<>>
    /\ status = <<>>

\* a token sequence built by the caller, to be handed to Parser::new
InitTokens ==
    /\ source = <<>>
    /\ tokens = <<>>
    /\ start = 0
    /\ current = 0
    /\ line = 1
    /\ errors = <<>>
    /\ pc = "given"
    /\ returned \in TokenInputs \cup TernaryChains \cup OperatorChains
    /\ parser = NoParser
    /\ parsed = NoneExpr
    /\ evaluated = NotEvaluated
    /\ printed = <<>>
    /\ status = <<>>

\* an expression built by the caller, as main does, to be evaluated or printed
InitTree ==
    /\ source = <<>>
    /\ tokens = <<>>
    /\ start = 0
    /\ current = 0
    /\ line = 1
    /\ errors = <<>>
    /\ pc = "tree"
    /\ returned = <<>>
    /\ parser = NoParser
    /\ parsed \in { Some(e) : e \in Exprs }
    /\ evaluated = NotEvaluated
    /\ printed = <<>>
    /\ status = <<>>

Init == InitSource \/ InitTokens \/ InitTree

\* one iteration of the loop of scan_tokens: self.start = self.current; self.scan_token()
ScanToken ==
    /\ pc = "scan"
    /\ ~Scanner_is_at_end(Self)
    /\ LET s == scan_token([Self EXCEPT !.start = current])
       IN  /\ tokens' = s.tokens
           /\ start' = s.start
           /\ current' = s.current
           /\ line' = s.line
           /\ errors' = s.errors
           /\ pc' = IF s.fault THEN "scan_panic" ELSE "scan"
    /\ UNCHANGED <<source, returned, parser, parsed, evaluated, printed, status>>

\* the loop of scan_tokens ends: the Eof token is added and the tokens are returned
ScanEof ==
    /\ pc = "scan"
    /\ Scanner_is_at_end(Self)
    /\ tokens' = Append(tokens, EofToken(line))
    /\ returned' = tokens'
    /\ pc' = "scanned"
    /\ UNCHANGED <<source, start, current, line, errors, parser, parsed, evaluated,
                   printed, status>>

\* the state after a parse whose result is r
Parsed(r) ==
    /\ parser' = [tokens |-> r.p.tokens, current |-> r.p.current,
                  underflow |-> r.error = absense]
    /\ parsed' = r.expr
    /\ errors' = errors \o r.out
    /\ pc' = IF r.kind = "Panic" THEN "parse_panic" ELSE "parsed"

\* Parser::new(tokens) on the tokens scan_tokens returned, or on the tokens
\* given, then parse()
Parse ==
    /\ pc \in {"scanned", "given"}
    /\ \E oc \in BOOLEAN : Parsed(parse(Parser_new(returned, oc)))
    /\ UNCHANGED <<source, tokens, start, current, line, returned, evaluated, printed,
                   status>>

\* expr.eval() on the expression parse returned or the caller built
Eval ==
    /\ pc \in {"parsed", "tree"}
    /\ parsed.some
    /\ evaluated' = eval(parsed.expr)
    /\ pc' = "evaluated"
    /\ UNCHANGED <<source, tokens, start, current, line, errors, returned, parser, parsed,
                   printed, status>>

\* ast_print(expr) on the expression parse returned or the caller built
AstPrint ==
    /\ pc \in {"parsed", "tree"}
    /\ parsed.some
    /\ printed' = ast_print(parsed.expr)
    /\ pc' = "printed"
    /\ UNCHANGED <<source, tokens, start, current, line, errors, returned, parser, parsed,
                   evaluated, status>>

\* main.rs, run: what it returns once scan_tokens has returned toks; it
\* prints them and returns Ok(())
run(toks) == [kind |-> "Ok", error |-> Error(0, <<>>, <<>>)]

\* run_file after run returned: on Err it reports and exits with 65, else it
\* returns and the process ends with status 0
RunFile ==
    /\ pc = "scanned"
    /\ errors' = IF run(returned).kind = "Err"
                 THEN Append(errors, report(run(returned).error))
                 ELSE errors
    /\ status' = IF run(returned).kind = "Err" THEN <<65>> ELSE <<0>>
    /\ pc' = "exited"
    /\ UNCHANGED <<source, tokens, start, current, line, returned, parser, parsed,
                   evaluated, printed>>

\* run_file when the scan of run panics: nothing catches the panic, and the
\* process ends with the status 101 of a Rust panic
RunFilePanic ==
    /\ pc = "scan_panic"
    /\ status' = <<101>>
    /\ pc' = "exited"
    /\ UNCHANGED <<source, tokens, start, current, line, errors, returned, parser, parsed,
                   evaluated, printed>>

\* the state after a synchronize whose result is r
AfterSynchronize(r) ==
    /\ parser' = [tokens |-> r.p.tokens, current |-> r.p.current, underflow |-> r.underflow]
    /\ pc' = IF r.kind = "Panic" THEN "synchronize_panic" ELSE "synchronized"

\* synchronize() on a fresh Parser over the tokens, or on the Parser whose
\* parse failed
Synchronize ==
    /\ \/ /\ pc \in {"scanned", "given"}
          /\ \E oc \in BOOLEAN : AfterSynchronize(synchronize(Parser_new(returned, oc)))
       \/ /\ pc = "parsed"
          /\ ~parsed.some
          /\ \E oc \in BOOLEAN :
                AfterSynchronize(synchronize([tokens |-> parser.tokens,
                                              current |-> parser.current,
                                              overflow_checks |-> oc]))
    /\ UNCHANGED <<source, tokens, start, current, line, errors, returned, parsed,
                   evaluated, printed, status>>

Next ==
    ScanToken \/ ScanEof \/ Parse \/ Eval \/ AstPrint \/ RunFile \/ RunFilePanic
        \/ Synchronize

Spec == Init /\ [][Next]_vars

----------------------------------------------------------------------------
(* The claims *)

Last(s) == s[Len(s)]

\* the scan_token of the next step reads character c at the cursor
Dispatch(c) == pc = "scan" /\ ~Scanner_is_at_end(Self) /\ source[current + 1] = c

Message(ln) == ln[6]

Reported(msg) == { i \in 1..Len(errors) : Message(errors[i]) = msg }

\* C1: for every source text scan_tokens returns a token sequence without
\* faulting: no scan ends in a panic.
C1_ScanNeverFaults == pc # "scan_panic"

\* C2: a source with an opening quote and no closing quote before the end of
\* input reports exactly one unterminated-string error, does not fault, and
\* the returned token sequence ends with the Eof token.
C2_UnterminatedStringResilience ==
    Reported(<<"Unterminated string">>) # {} =>
        /\ Cardinality(Reported(<<"Unterminated string">>)) = 1
        /\ pc # "scan_panic"
        /\ pc = "scanned" => (returned # <<>> /\ Last(returned).type = "Eof")

\* what scanning a source text and parsing the tokens returns
ParseOf(src) == parse(Parser_new(scan_tokens(Scanner_new(src)).tokens, TRUE)).expr

\* the operands of the sources of test::ternary and test::ternary_complex,
\* and the operand 1
TernaryOperands ==
    { <<"1">>,
      <<"1", " ", "=", "=", " ", "1", " ">>, <<" ", "2", " ">>, <<" ", "3">>,
      <<"5", " ", "*", " ", "2", "0", " ", "=", "=", " ", "9", "9", " ">>,
      <<" ", "1", "0", " ">>,
      <<" ", "3", " ", "<", " ", "2", " ", "?", " ", "1", " ", ":", " ", "0">> }

\* C3: scanning a source text C ? T : E and parsing the result yields a
\* Ternary root whose condition, then and else sub-trees are the parses of
\* C, T and E.
C3_TernaryFromSource ==
    pc \in {"scan_panic", "parsed", "parse_panic"} =>
        \A c, th, el \in TernaryOperands :
            source = c \o <<"?">> \o th \o <<":">> \o el =>
                /\ pc = "parsed"
                /\ parsed = Some(Expr_Ternary(ParseOf(c).expr, ParseOf(th).expr,
                                              ParseOf(el).expr))

MissingTokenMessages ==
    { <<"Expect ')' after expression">>, <<"Expect ':' after ternary condition.">> }

\* C4: when the `)` closing a parenthesized expression or the `:` after a
\* ternary then-branch is missing, parse reports the parse error and returns
\* None to the caller; it does not fault.
C4_MissingTokenIsParseError ==
    (\E i \in 1..Len(errors) : Message(errors[i]) \in MissingTokenMessages) =>
        /\ pc = "parsed"
        /\ parsed = NoneExpr

Punctuation ==
    { <<"(", "LeftParen">>, <<")", "RightParen">>, <<"{", "LeftBrace">>,
      <<"}", "RightBrace">>, <<",", "Comma">>, <<".", "Dot">>, <<"-", "Minus">>,
      <<"+", "Plus">>, <<";", "Semicolon">>, <<":", "Colon">>, <<"*", "Star">>,
      <<"?", "Question">> }

\* C5: each single-character punctuation character, scanned outside a string
\* or comment, adds exactly one token of its own kind whose lexeme is that
\* character, and reports no lexical error.
C5_PunctuationTokens ==
    [][\A pk \in Punctuation :
          Dispatch(pk[1]) =>
              /\ tokens' = Append(tokens, Token(pk[2], <<pk[1]>>, LitNone, line))
              /\ errors' = errors]_vars

\* the offset of the first newline at or after offset i, or the end of the source
LineEnd(i) ==
    CHOOSE j \in i..Len(source) :
        /\ j = Len(source) \/ source[j + 1] = NL
        /\ \A k \in i..(j - 1) : source[k + 1] # NL

\* the scan_token of the next step reads character c and then character d
Dispatch2(c, d) == Dispatch(c) /\ current + 1 < Len(source) /\ source[current + 2] = d

\* C6: after `//` the scanner emits no token for any character up to the next
\* newline or the end of the source, whichever comes first, and scanning goes
\* on from there.
C6_LineComment ==
    [][Dispatch2("/", "/") =>
          /\ tokens' = tokens
          /\ line' = line
          /\ current' = LineEnd(current + 2)
          /\ pc' = "scan"]_vars

\* the offset after the maximal run of letters, digits and underscores that
\* starts at offset i
RunEnd(i) ==
    CHOOSE j \in i..Len(source) :
        /\ j = Len(source) \/ ~is_alpha_numeric(source[j + 1])
        /\ \A k \in i..(j - 1) : is_alpha_numeric(source[k + 1])

\* C7: a letter or underscore starts the maximal run of letters, digits and
\* underscores, ended by the next other character or by the end of the
\* source, and exactly one token is emitted: its lexeme is the run, its kind
\* the reserved-word kind of the keyword table or else Identifier.
C7_IdentifierMaximalRun ==
    [][(pc = "scan" /\ ~Scanner_is_at_end(Self) /\ is_alpha(source[current + 1])) =>
          /\ pc' = "scan"
          /\ current' = RunEnd(current)
          /\ tokens' = Append(tokens,
                 Token(keywords_get(SubSeq(source, current + 1, RunEnd(current))),
                       SubSeq(source, current + 1, RunEnd(current)), LitNone, line))]_vars

OneOrTwo ==
    { <<"!", "Bang", "BangEqual">>, <<"=", "Equal", "EqualEqual">>,
      <<"<", "Less", "LessEqual">>, <<">", "Greater", "GreaterEqual">> }

\* C8: maximal munch: one of ! = < > immediately followed by = is scanned as
\* a single two-character token and never as the one-character token followed
\* by Equal; not followed by = (the end of the source included) it is scanned
\* as the one-character token.
C8_MaximalMunch ==
    [][\A o \in OneOrTwo :
          Dispatch(o[1]) =>
              /\ pc' = "scan"
              /\ errors' = errors
              /\ IF Dispatch2(o[1], "=")
                 THEN /\ tokens' = Append(tokens, Token(o[3], <<o[1], "=">>, LitNone, line))
                      /\ current' = current + 2
                 ELSE /\ tokens' = Append(tokens, Token(o[2], <<o[1]>>, LitNone, line))
                      /\ current' = current + 1]_vars

\* a two-character operator was scanned as the first token
C8_Witness ==
    /\ pc = "scan"
    /\ Len(tokens) = 1
    /\ tokens[1].type \in {"BangEqual", "EqualEqual", "LessEqual", "GreaterEqual"}
    /\ current = 2

\* the offsets k >= i at which `*/` stands
Closers(i) == { k \in i..(Len(source) - 2) : source[k + 1] = "*" /\ source[k + 2] = "/" }

CommentClose(i) == CHOOSE k \in Closers(i) : \A m \in Closers(i) : k <= m

\* the offsets k >= i at which a quote stands
Quotes(i) == { k \in i..(Len(source) - 1) : source[k + 1] = QUOTE }

StringClose(i) == CHOOSE k \in Quotes(i) : \A m \in Quotes(i) : k <= m

\* the number of newlines at the offsets a..b-1
Newlines(a, b) == Cardinality({ k \in a..(b - 1) : source[k + 1] = NL })

\* C9: a terminated block comment produces no token, scanning resumes right
\* after the first subsequent `*/`, and the newlines inside the comment leave
\* the line counter unchanged; the newlines inside a string literal advance
\* the line counter.
C9_BlockCommentKeepsLine ==
    [][/\ (Dispatch2("/", "*") /\ Closers(current + 2) # {}) =>
             /\ pc' = "scan"
             /\ tokens' = tokens
             /\ errors' = errors
             /\ current' = CommentClose(current + 2) + 2
             /\ line' = line
       /\ (Dispatch(QUOTE) /\ Quotes(current + 1) # {}) =>
             /\ pc' = "scan"
             /\ current' = StringClose(current + 1) + 1
             /\ line' = line + Newlines(current + 1, StringClose(current + 1))
             /\ Len(tokens') = Len(tokens) + 1
             /\ Last(tokens').line = line']_vars

\* scan_tokens returned for a source that starts with a block comment with a
\* newline inside and a token after it: the token and the Eof token are on
\* line 1
C9_Witness ==
    /\ pc = "scanned"
    /\ Len(source) >= 6
    /\ source[1] = "/"
    /\ source[2] = "*"
    /\ Closers(2) # {}
    /\ Newlines(2, CommentClose(2)) > 0
    /\ Len(returned) = 2
    /\ returned[1].line = 1
    /\ returned[2].line = 1

\* C10: the token sequence scan_tokens returns holds exactly one Eof token,
\* it is the last element, its lexeme is empty, its literal absent, and its
\* line is the final line counter of the scanner.
C10_OneFinalEof ==
    pc = "scanned" =>
        /\ returned # <<>>
        /\ Last(returned) = Token("Eof", <<>>, LitNone, line)
        /\ \A i \in 1..(Len(returned) - 1) : returned[i].type # "Eof"

\* scan_tokens returned a token and the Eof token, after a newline
C10_Witness == pc = "scanned" /\ Len(returned) >= 2 /\ line >= 2

\* the tokens at positions a..b of the token sequence handed to the parser
Segment(a, b) == SubSeq(returned, a, b)

\* what equality() makes of the tokens ts followed by an Eof token
OperandParse(ts) == equality(Parser_new(Append(ts, EofToken(1)), TRUE))

\* ts is an operand of a ternary: equality() accepts it and consumes all of it
IsOperand(ts) ==
    /\ ts # <<>>
    /\ OperandParse(ts).kind = "Ok"
    /\ OperandParse(ts).p.current = Len(ts)

Positions(t) == { i \in 1..Len(returned) : returned[i].type = t }

\* C11: the ternary operator is right-associative: for a token sequence
\* a ? b : c ? d : e Eof, a..e being operands, parse yields
\* Ternary(a, b, Ternary(c, d, e)), and not Ternary(Ternary(a, b, c), d, e).
C11_TernaryRightAssociative ==
    (pc \in {"parsed", "parse_panic"} /\ returned # <<>> /\ Last(returned).type = "Eof") =>
        \A i \in Positions("Question") : \A j \in Positions("Colon") :
        \A k \in Positions("Question") : \A l \in Positions("Colon") :
            (/\ i < j /\ j < k /\ k < l
             /\ IsOperand(Segment(1, i - 1))
             /\ IsOperand(Segment(i + 1, j - 1))
             /\ IsOperand(Segment(j + 1, k - 1))
             /\ IsOperand(Segment(k + 1, l - 1))
             /\ IsOperand(Segment(l + 1, Len(returned) - 1))) =>
                /\ pc = "parsed"
                /\ parsed = Some(Expr_Ternary(
                       OperandParse(Segment(1, i - 1)).expr,
                       OperandParse(Segment(i + 1, j - 1)).expr,
                       Expr_Ternary(OperandParse(Segment(j + 1, k - 1)).expr,
                                    OperandParse(Segment(k + 1, l - 1)).expr,
                                    OperandParse(Segment(l + 1, Len(returned) - 1)).expr)))
                /\ parsed # Some(Expr_Ternary(
                       Expr_Ternary(OperandParse(Segment(1, i - 1)).expr,
                                    OperandParse(Segment(i + 1, j - 1)).expr,
                                    OperandParse(Segment(j + 1, k - 1)).expr),
                       OperandParse(Segment(k + 1, l - 1)).expr,
                       OperandParse(Segment(l + 1, Len(returned) - 1)).expr))

\* 1 ? (1) : 2 ? (2) : 1 was parsed: the else branch of the root is the
\* ternary whose condition is 2
C11_Witness ==
    /\ pc = "parsed"
    /\ returned \in TernaryChains
    /\ parsed.some
    /\ parsed.expr.node = "Ternary"
    /\ parsed.expr.condition = Expr_Literal(LitNumber(1, 0))
    /\ parsed.expr.then = Expr_Grouping(Expr_Literal(LitNumber(1, 0)))
    /\ parsed.expr.else.node = "Ternary"
    /\ parsed.expr.else.condition = Expr_Literal(LitNumber(2, 0))
    /\ parsed.expr.else.then = Expr_Grouping(Expr_Literal(LitNumber(2, 0)))
    /\ parsed.expr.else.else = Expr_Literal(LitNumber(1, 0))

LiteralTypes == { "Number", "String", "False", "True", "Nil" }

\* the level of a binary operator in the reference grammar
\* comma < equality < comparison < term < factor
Level(t) ==
    CASE t = "Comma" -> 1
      [] t \in {"BangEqual", "EqualEqual"} -> 2
      [] t \in {"Greater", "GreaterEqual", "Less", "LessEqual"} -> 3
      [] t \in {"Minus", "Plus"} -> 4
      [] t \in {"Slash", "Star"} -> 5
      [] OTHER -> 0

\* ts is operand (operator operand)*, an operand being a literal under any
\* number of unary operators
IsOperatorChain(ts) ==
    /\ ts # <<>>
    /\ Last(ts).type \in LiteralTypes
    /\ ts[1].type \in LiteralTypes \cup {"Bang", "Minus"}
    /\ \A i \in 1..(Len(ts) - 1) :
          IF ts[i].type \in LiteralTypes
          THEN Level(ts[i + 1].type) > 0
          ELSE /\ Level(ts[i].type) > 0 \/ ts[i].type = "Bang"
               /\ ts[i + 1].type \in LiteralTypes \cup {"Bang", "Minus"}

\* the positions of the binary operators of a chain: an operator token is
\* binary when it follows a literal
BinaryAt(ts) == { i \in 2..Len(ts) : ts[i - 1].type \in LiteralTypes }

\* the last binary operator of the lowest level in the chain
RootAt(ts) ==
    CHOOSE i \in BinaryAt(ts) :
        \A j \in BinaryAt(ts) :
            \/ Level(ts[j].type) > Level(ts[i].type)
            \/ Level(ts[j].type) = Level(ts[i].type) /\ j <= i

ReferenceLiteral(tok) ==
    CASE tok.type = "False" -> LitBool(FALSE)
      [] tok.type = "True" -> LitBool(TRUE)
      [] tok.type = "Nil" -> LitNil
      [] OTHER -> tok.literal

\* the tree of the reference grammar for a chain: the root is the last
\* operator of the lowest level, its operands the trees of what stands left
\* and right of it
RECURSIVE ReferenceTree(_)
ReferenceTree(ts) ==
    IF BinaryAt(ts) # {}
    THEN Expr_Binary(ReferenceTree(SubSeq(ts, 1, RootAt(ts) - 1)), ts[RootAt(ts)],
                     ReferenceTree(SubSeq(ts, RootAt(ts) + 1, Len(ts))))
    ELSE IF Len(ts) = 1 THEN Expr_Literal(ReferenceLiteral(ts[1]))
    ELSE Expr_Unary(ts[1], ReferenceTree(Tail(ts)))

\* C12: for a token sequence of literals joined by binary operators, parse
\* yields the tree of the reference grammar: precedence increases comma <
\* equality < comparison < term < factor < unary, and every binary level is
\* left-associative.
C12_PrecedenceAndAssociativity ==
    (/\ pc \in {"parsed", "parse_panic"}
     /\ returned # <<>>
     /\ Last(returned).type = "Eof"
     /\ IsOperatorChain(Segment(1, Len(returned) - 1))) =>
        /\ pc = "parsed"
        /\ parsed = Some(ReferenceTree(Segment(1, Len(returned) - 1)))

\* the source of test::comma_separated_expressions was scanned and parsed:
\* the root is the second comma, its left operand the comma-chain of the
\* first two binary expressions
C12_Witness ==
    /\ pc = "parsed"
    /\ source = <<"1", "+", "1", ",", "1", "-", "1", ",", "1", "=", "=", "1">>
    /\ parsed.some
    /\ parsed.expr.node = "Binary"
    /\ parsed.expr.operator.type = "Comma"
    /\ parsed.expr.right.node = "Binary"
    /\ parsed.expr.right.operator.type = "EqualEqual"
    /\ parsed.expr.left.node = "Binary"
    /\ parsed.expr.left.operator.type = "Comma"
    /\ parsed.expr.left.left.operator.type = "Plus"
    /\ parsed.expr.left.right.operator.type = "Minus"

\* the expressions eval was called on during the evaluation
Evaluated == { evaluated.trace[i] : i \in 1..Len(evaluated.trace) }

\* the operands of the Binary b evaluate to values
OperandsEvaluate(b) == eval(b.left).kind = "Ok" /\ eval(b.right).kind = "Ok"

\* C13: evaluating Binary(l, op, r) whose operands evaluate to values of
\* different variants fails, for every operator, with a RuntimeError that
\* carries the operator token of that Binary; no value is produced.
C13_MixedVariantsFail ==
    pc = "evaluated" =>
        \A b \in Evaluated :
            (/\ b.node = "Binary"
             /\ OperandsEvaluate(b)
             /\ eval(b.left).value.kind # eval(b.right).value.kind) =>
                /\ evaluated.kind = "Err"
                /\ evaluated.error.token = b.operator

\* 1 + "a" was evaluated
C13_Witness ==
    /\ pc = "evaluated"
    /\ parsed.expr = Expr_Binary(Expr_Literal(LitNumber(1, 0)), OperatorToken("Plus", <<"+">>),
                                 Expr_Literal(LitString(<<"a">>)))
    /\ evaluated.kind = "Err"
    /\ evaluated.error.token.type = "Plus"

\* the result r is the result of evaluating e, reached after the calls tr
SameResult(r, e, tr) ==
    /\ r.kind = eval(e).kind
    /\ r.value = eval(e).value
    /\ r.error = eval(e).error
    /\ r.trace = tr \o eval(e).trace

\* C14: evaluating Ternary(c, t, e): when c evaluates to Boolean(true) the
\* result is that of t and e is not evaluated; when c evaluates to
\* Boolean(false) the result is that of e and t is not evaluated; when c
\* evaluates to a value that is no Boolean the result is a RuntimeError and
\* neither branch is evaluated.
C14_TernaryShortCircuit ==
    (/\ pc = "evaluated"
     /\ parsed.expr.node = "Ternary"
     /\ eval(parsed.expr.condition).kind = "Ok") =>
        CASE eval(parsed.expr.condition).value = Value_Boolean(TRUE) ->
                SameResult(evaluated, parsed.expr.then,
                           <<parsed.expr>> \o eval(parsed.expr.condition).trace)
          [] eval(parsed.expr.condition).value = Value_Boolean(FALSE) ->
                SameResult(evaluated, parsed.expr.else,
                           <<parsed.expr>> \o eval(parsed.expr.condition).trace)
          [] OTHER ->
                /\ evaluated.kind = "Err"
                /\ evaluated.trace = <<parsed.expr>> \o eval(parsed.expr.condition).trace

\* true ? 1 : -"a" was evaluated: the result is 1, the error of the else
\* branch does not surface
C14_Witness ==
    /\ pc = "evaluated"
    /\ parsed.expr = Expr_Ternary(Expr_Literal(LitBool(TRUE)), Expr_Literal(LitNumber(1, 0)),
                                  Expr_Unary(OperatorToken("Minus", <<"-">>),
                                             Expr_Literal(LitString(<<"a">>))))
    /\ eval(parsed.expr.else).kind = "Err"
    /\ evaluated.kind = "Ok"
    /\ evaluated.value = Value_Number(Finite(FALSE, 1, 1))
    /\ Len(evaluated.trace) = 3

\* the signed numerator of l op r over the denominator l.den * r.den
SumOver(l, r) == Signed(l) * r.den + Signed(r) * l.den
DifferenceOver(l, r) == Signed(l) * r.den - Signed(r) * l.den

\* x is the rational n / d
IsRational(x, n, d) == x.class = "finite" /\ Signed(x) * d = n * x.den

\* x is l / r: NaN for 0 / 0, the infinity of the sign of the quotient for
\* a division by zero
IsQuotient(x, l, r) ==
    IF r.num = 0
    THEN IF l.num = 0 THEN x.class = "nan" ELSE x.class = "inf" /\ x.neg = (l.neg # r.neg)
    ELSE IsRational(x, Signed(l) * r.den * (IF r.neg THEN 0 - 1 ELSE 1), l.den * r.num)

\* the value of the native operation on the finite numbers l and r
NativeNumber(t, x, l, r) ==
    CASE t = "Plus" -> IsRational(x, SumOver(l, r), l.den * r.den)
      [] t = "Minus" -> IsRational(x, DifferenceOver(l, r), l.den * r.den)
      [] t = "Star" -> IsRational(x, Signed(l) * Signed(r), l.den * r.den)
      [] t = "Slash" -> IsQuotient(x, l, r)

NativeBoolean(t, l, r) ==
    CASE t = "Greater" -> DifferenceOver(l, r) > 0
      [] t = "GreaterEqual" -> DifferenceOver(l, r) >= 0
      [] t = "Less" -> DifferenceOver(l, r) < 0
      [] t = "LessEqual" -> DifferenceOver(l, r) <= 0
      [] t = "EqualEqual" -> DifferenceOver(l, r) = 0
      [] t = "BangEqual" -> DifferenceOver(l, r) # 0

\* C15, for the Binary b whose operands are the Numbers l and r and whose
\* evaluation returned res
NumbersResult(b, l, r, res) ==
    /\ b.operator.type \in {"Plus", "Minus", "Star", "Slash"} =>
          /\ res.kind = "Ok"
          /\ res.value.kind = "Number"
          /\ NativeNumber(b.operator.type, res.value.number, l, r)
    /\ b.operator.type \in {"Greater", "GreaterEqual", "Less", "LessEqual", "EqualEqual",
                            "BangEqual"} =>
          /\ res.kind = "Ok"
          /\ res.value = Value_Boolean(NativeBoolean(b.operator.type, l, r))

\* C15: when both operands of a Binary evaluate to the same variant: two
\* Numbers yield a Number for + - * / and a Boolean for > >= < <= == !=, the
\* value of the native numeric operation; two Strings yield their
\* concatenation for + and a RuntimeError for every other operator; two
\* Booleans or two Nils yield a RuntimeError for every operator.
C15_SameVariantOperands ==
    (/\ pc = "evaluated"
     /\ parsed.expr.node = "Binary"
     /\ OperandsEvaluate(parsed.expr)
     /\ eval(parsed.expr.left).value.kind = eval(parsed.expr.right).value.kind) =>
        CASE eval(parsed.expr.left).value.kind = "Number" ->
                (/\ Representable(eval(parsed.expr.left).value.number)
                 /\ Representable(eval(parsed.expr.right).value.number)) =>
                    NumbersResult(parsed.expr, eval(parsed.expr.left).value.number,
                                  eval(parsed.expr.right).value.number, evaluated)
          [] eval(parsed.expr.left).value.kind = "String" ->
                IF parsed.expr.operator.type = "Plus"
                THEN /\ evaluated.kind = "Ok"
                     /\ evaluated.value = Value_String(eval(parsed.expr.left).value.text
                                              \o eval(parsed.expr.right).value.text)
                ELSE evaluated.kind = "Err"
          [] OTHER -> evaluated.kind = "Err"

\* 0.5 - 2 was evaluated to -1.5, and the operands are not equal
C15_Witness ==
    /\ pc = "evaluated"
    /\ parsed.expr = Expr_Binary(Expr_Literal(LitNumber(5, 1)), OperatorToken("Minus", <<"-">>),
                                 Expr_Literal(LitNumber(2, 0)))
    /\ evaluated.kind = "Ok"
    /\ evaluated.value = Value_Number(Finite(TRUE, 3, 2))

\* only Nil and Boolean(false) are falsy
Truthy(v) == ~(v.kind = "Nil" \/ v = Value_Boolean(FALSE))

\* C16: evaluating Unary(op, r) where r evaluates to a value v: `!` always
\* succeeds with Boolean(not truthy(v)), only Nil and Boolean(false) being
\* falsy; `-` yields Number(-n) when v is Number(n) and otherwise a
\* RuntimeError carrying the operator token.
C16_UnaryOperators ==
    (/\ pc = "evaluated"
     /\ parsed.expr.node = "Unary"
     /\ eval(parsed.expr.right).kind = "Ok") =>
        /\ parsed.expr.operator.type = "Bang" =>
              /\ evaluated.kind = "Ok"
              /\ evaluated.value = Value_Boolean(~Truthy(eval(parsed.expr.right).value))
        /\ parsed.expr.operator.type = "Minus" =>
              IF eval(parsed.expr.right).value.kind = "Number"
              THEN /\ evaluated.kind = "Ok"
                   /\ evaluated.value.kind = "Number"
                   /\ evaluated.value.number.class = eval(parsed.expr.right).value.number.class
                   /\ evaluated.value.number.neg = ~eval(parsed.expr.right).value.number.neg
                   /\ evaluated.value.number.num = eval(parsed.expr.right).value.number.num
                   /\ evaluated.value.number.den = eval(parsed.expr.right).value.number.den
              ELSE /\ evaluated.kind = "Err"
                   /\ evaluated.error.token = parsed.expr.operator

\* !0 and !"" were evaluated to false: the Number 0 and the empty String are truthy
C16_Witness ==
    /\ pc = "evaluated"
    /\ parsed.expr.node = "Unary"
    /\ parsed.expr.operator.type = "Bang"
    /\ parsed.expr.right \in { Expr_Literal(LitNumber(0, 0)), Expr_Literal(LitString(<<>>)) }
    /\ evaluated.kind = "Ok"
    /\ evaluated.value = Value_Boolean(FALSE)

\* the place of a diagnostic about the token tok
Place(tok) ==
    IF tok.type = "Eof" THEN <<" at the end">> ELSE <<" at '">> \o tok.lexeme \o <<"'">>

\* the line `[line <N>] Error<place>: <message>`, in the pieces of report
Diagnostic(ln, place, msg) == <<"[line ", ln, "] Error", place, ": ", msg>>

\* C17: each parse error the parser detects emits exactly one diagnostic
\* line, of the form `[line <N>] Error<place>: <message>`, where <place> is
\* " at the end" when the offending token is Eof and " at '<lexeme>'"
\* otherwise, never both.
C17_OneDiagnosticPerParseError ==
    [][(pc \in {"scanned", "given"} /\ errors' # errors) =>
          errors' = Append(errors,
                           Diagnostic(returned[parser'.current + 1].line,
                                      Place(returned[parser'.current + 1]),
                                      Message(Last(errors'))))]_vars

\* the tokens that start an operand: a primary, or a unary operator
OperandStart == LiteralTypes \cup {"LeftParen", "Bang", "Minus"}

\* position i of the token sequence is a primary position that holds no
\* primary: the tokens before it are literals, operators, `(` and `?`, each
\* literal followed by a binary operator or `?`, each of the others by the
\* start of an operand, and the token at i, which follows none or one of the
\* others, starts no operand
NoPrimaryAt(i) ==
    /\ returned[i].type \notin OperandStart
    /\ \A j \in 1..(i - 1) :
          /\ returned[j].type \in OperandStart \cup {"Question"} \/ Level(returned[j].type) > 0
          /\ IF returned[j].type \in LiteralTypes
             THEN j < i - 1 /\ (Level(returned[j + 1].type) > 0 \/ returned[j + 1].type = "Question")
             ELSE j = i - 1 \/ returned[j + 1].type \in OperandStart
    /\ i > 1 => returned[1].type \in OperandStart

\* C18: when the token at a primary position is none of false, true, nil, a
\* Number, a String or `(`, the parser raises the parse error "expect
\* expression" tagged with that token, parse returns None, and no fault
\* occurs.
C18_ExpectExpression ==
    (pc \in {"parsed", "parse_panic"} /\ returned # <<>> /\ Last(returned).type = "Eof") =>
        \A i \in 1..Len(returned) :
            NoPrimaryAt(i) =>
                /\ pc = "parsed"
                /\ parsed = NoneExpr
                /\ parser.current = i - 1
                /\ Reported(<<"expect expression">>) # {}
                /\ \A oc \in BOOLEAN :
                      /\ expression(Parser_new(returned, oc)).kind = "Err"
                      /\ expression(Parser_new(returned, oc)).error
                             = ParseError(returned[i], <<"expect expression">>)

\* the source `+`, a binary operator with no left operand, was scanned and
\* parsed
C18_Witness ==
    /\ pc = "parsed"
    /\ source = <<"+">>
    /\ NoPrimaryAt(1)
    /\ parsed = NoneExpr
    /\ Len(errors) = 1

\* the source of test::grouping_unary and the tree the test expects
GroupingUnarySource == <<"(", "-", "1", ")">>

GroupingUnaryTree ==
    Expr_Grouping(Expr_Unary(Token("Minus", <<"-">>, LitNone, 1),
                             Expr_Literal(LitNumber(1, 0))))

\* C19: scanning and parsing `(-1)` yields Grouping(Unary(-, Literal 1)),
\* whose pretty-printed form is `(group (- 1))`; evaluating Grouping(e)
\* returns the result, value or RuntimeError, of evaluating e; so the parse of
\* `(-1)` evaluates to Number(-1).
C19_GroupingTransparency ==
    /\ (/\ source = GroupingUnarySource
        /\ pc \notin {"scan", "scanned", "exited", "synchronized", "synchronize_panic"}) =>
          /\ pc \notin {"scan_panic", "parse_panic"}
          /\ parsed = Some(GroupingUnaryTree)
    /\ (source = GroupingUnarySource /\ pc = "printed") =>
          printed = <<"(", "g", "r", "o", "u", "p", " ", "(", "-", " ", "1", ")", ")">>
    /\ (source = GroupingUnarySource /\ pc = "evaluated") =>
          /\ evaluated.kind = "Ok"
          /\ evaluated.value = Value_Number(Finite(TRUE, 1, 1))
    /\ (pc = "evaluated" /\ parsed.expr.node = "Grouping") =>
          /\ evaluated.kind = eval(parsed.expr.expression).kind
          /\ evaluated.value = eval(parsed.expr.expression).value
          /\ evaluated.error = eval(parsed.expr.expression).error

\* the parse of `(-1)` was evaluated
C19_Witness ==
    /\ pc = "evaluated"
    /\ source = GroupingUnarySource
    /\ parsed.expr.node = "Grouping"
    /\ evaluated.value.kind = "Number"
    /\ evaluated.value.number.neg

\* the scan or the parse of the script fails: the scanner reported an error
\* or panicked, or the parser does not accept the tokens
ScriptFails ==
    \/ errors # <<>>
    \/ returned = <<>>
    \/ parse(Parser_new(returned, TRUE)).kind # "Ok"

\* C20: running a script file whose scan or parse fails ends the process
\* with exit status 65.
C20_FailedScriptExits65 == (pc = "exited" /\ ScriptFails) => status = <<65>>

\* C21: for a fresh Parser over a token sequence that ends with an Eof token,
\* in every state the parser's operations reach, 0 <= current <= the index
\* of the Eof token, peek() reads inside the token buffer, and previous() is
\* only evaluated with current >= 1.
C21_CursorInvariant ==
    (/\ pc \in {"parsed", "parse_panic", "synchronized", "synchronize_panic"}
     /\ returned # <<>>
     /\ Last(returned).type = "Eof") =>
        /\ parser.current >= 0
        /\ parser.current <= Len(returned) - 1
        /\ ~peek_panics(parser)
        /\ ~parser.underflow
        /\ pc # "synchronize_panic"
        /\ pc = "parse_panic" => Message(Last(errors)) \in MissingTokenMessages

\* a token of type t neither continues an expression nor ends the tokens
NonOperator(t) == Level(t) = 0 /\ t \notin {"Question", "Eof"}

\* parse() of the first k tokens followed by the Eof token
PrefixParse(k) == parse(Parser_new(Append(Segment(1, k), Last(returned)), TRUE))

\* the first k tokens are a complete expression: parse() accepts them and
\* consumes all of them
CompletePrefix(k) ==
    /\ PrefixParse(k).kind = "Ok"
    /\ PrefixParse(k).p.current = k

\* C22: parse does not require the expression to be followed by Eof: when a
\* prefix of the tokens is a complete expression and the token after it is
\* not an operator, parse returns Some(tree of the prefix), reports no error
\* and leaves the cursor on the first unconsumed token.
C22_ParseStopsAfterExpression ==
    (pc \in {"parsed", "parse_panic"} /\ returned # <<>> /\ Last(returned).type = "Eof") =>
        \A k \in 1..(Len(returned) - 2) :
            (CompletePrefix(k) /\ NonOperator(returned[k + 1].type)) =>
                /\ pc = "parsed"
                /\ parsed.some
                /\ parsed = PrefixParse(k).expr
                /\ parser.current = k
                /\ \A oc \in BOOLEAN :
                      /\ parse(Parser_new(returned, oc)).kind = "Ok"
                      /\ parse(Parser_new(returned, oc)).out = <<>>

\* Number Number Eof, or ( Number ) ) Eof, was parsed
C22_Witness ==
    /\ pc = "parsed"
    /\ \/ /\ [i \in 1..Len(returned) |-> returned[i].type] = <<"Number", "Number", "Eof">>
          /\ parsed.some
          /\ parsed.expr.node = "Literal"
          /\ parser.current = 1
       \/ /\ [i \in 1..Len(returned) |-> returned[i].type]
                = <<"LeftParen", "Number", "RightParen", "RightParen", "Eof">>
          /\ parsed.some
          /\ parsed.expr.node = "Grouping"
          /\ parser.current = 3

\* the message of the RuntimeError of a Binary whose operator is no operator
\* of its operands' values l and r
CommaMessage(l, r) ==
    IF l.kind # r.kind THEN <<"Types don't match in binary expression.">>
    ELSE <<"Invalid binary expression operator.">>

\* C23: a comma expression is never evaluated to a value: evaluating a
\* Binary whose operator token is Comma and whose operands evaluate to values
\* fails with a RuntimeError on that token, "Types don't match" when the
\* operands' variants differ and "Invalid binary expression operator"
\* when they are the same.
C23_CommaNeverEvaluates ==
    pc = "evaluated" =>
        \A b \in Evaluated :
            (/\ b.node = "Binary"
             /\ b.operator.type = "Comma"
             /\ OperandsEvaluate(b)) =>
                /\ eval(b).kind = "Err"
                /\ evaluated.kind = "Err"
                /\ evaluated.error
                       = RuntimeError(b.operator,
                                      CommaMessage(eval(b.left).value, eval(b.right).value))

\* the tokens Number , Number Eof were parsed to a Binary and it was evaluated
C23_Witness ==
    /\ pc = "evaluated"
    /\ [i \in 1..Len(returned) |-> returned[i].type] = <<"Number", "Comma", "Number", "Eof">>
    /\ parsed.expr.node = "Binary"
    /\ parsed.expr.operator = returned[2]
    /\ evaluated.kind = "Err"
    /\ evaluated.error.message = <<"Invalid binary expression operator.">>

====
